---- MODULE Spec2Model ----
(***************************************************************************)
(* Model of the Samsung MDC display adapter                                *)
(* (homeassistant/components/samsungmdc/media_player.py).                  *)
(*                                                                         *)
(* One SamsungMDCDisplay entity and its MDC connection.  The host runs     *)
(* async_update, async_turn_on and the other service calls as coroutines   *)
(* on one event loop; the entity takes no lock, so a coroutine suspended   *)
(* at an await can be overtaken by another one.  Every action below is the *)
(* code between two suspension points of one coroutine.                    *)
(*                                                                         *)
(* An optional value (Python None or a value) is written <<>> or <<v>>.    *)
(***************************************************************************)
EXTENDS Integers, Sequences, FiniteSets, TLC

VARIABLES
    _is_awaiting_power_on,  \* SamsungMDCDisplay._is_awaiting_power_on
    _power,                 \* SamsungMDCDisplay._power
    _volume,                \* SamsungMDCDisplay._volume  (<<>> is None)
    _muted,                 \* SamsungMDCDisplay._muted
    _input_source,          \* SamsungMDCDisplay._input_source (<<>> is None)
    _available,             \* SamsungMDCDisplay._available
    available,              \* the attribute `available` of the entity base class
    connected,              \* the MDC connection is open (opened lazily, closed by close())
    updatePc,               \* where the async_update coroutine is suspended
    updateFault,            \* the exception mdc.status raised in the current/last poll
    updateResult,           \* how the last async_update ended
    turnOnPc,               \* where the async_turn_on coroutine is suspended
    turnOnResult,           \* how the last async_turn_on ended
    powerOnFault,           \* the exception mdc.power raised in the current/last async_turn_on
    cmdPc,                  \* the mdc method a forwarded command is awaiting
    cmdCall,                \* the last forwarded command call: <<method, argument>>
    cmdArg,                 \* what the command in flight sent: <<mdc method, value>>
    cmdResult,              \* how the last forwarded command ended
    removed,                \* the host has begun to tear the entity down
    other,                  \* a second SamsungMDCDisplay with its own connection
    otherCalledInWait,      \* history: the running/last poll of `other` was called
                            \* while this entity was in its grace wait
    api,                    \* PhilipsTVDataUpdateCoordinator.api: the fields of the
                            \* PhilipsTV object that _notify_wanted reads
    options,                \* PhilipsTVDataUpdateCoordinator.options
    _notify_future,         \* PhilipsTVDataUpdateCoordinator._notify_future (0 is None,
                            \* otherwise the number of the task)
    tasks,                  \* the state of every asyncio task made of _notify_task
    _listeners,             \* how many listeners the coordinator has
    updateDataPc,           \* where the _async_update_data coroutine is suspended
    notifyRequests,         \* history: parity of the number of notifyChange requests started
    updateDataResult,       \* history: how the last _async_update_data ended
    updateDataListeners,    \* history: how many listeners there were when the
                            \* running/last _async_update_data was called
    notifyResult,           \* history: what the last notifyChange returned
    updatedDataCalls,       \* history: parity of the number of async_set_updated_data calls
    _actions,               \* PluggableAction._actions, in insertion order
    removeIssued,           \* how many _remove callbacks async_attach has returned
    updateCalls,            \* how often PluggableAction._update has been called
    pluggableCall,          \* the last call on the PluggableAction: <<method, argument>>
    pluggableResult,        \* how that call ended
    ran,                    \* the jobs the last async_run handed to the host, in order
    hass_data,              \* hass.data: per domain <<>> (no key) or <<the entry ids
                            \* that map to a coordinator>>
    entryPc,                \* per config entry, where its setup or unload coroutine is
    entryResult             \* how the last setup or unload call ended:
                            \* <<domain, entry id, function, result>>

DeviceState == <<_is_awaiting_power_on, _power, _volume, _muted, _input_source,
                 _available, available>>
updateVars  == <<updatePc, updateFault, updateResult>>
turnOnVars  == <<turnOnPc, turnOnResult, powerOnFault>>
cmdVars     == <<cmdPc, cmdCall, cmdArg, cmdResult>>
philipsVars == <<api, options, _notify_future, tasks, _listeners, updateDataPc,
                 notifyRequests, updateDataResult, updateDataListeners, notifyResult,
                 updatedDataCalls>>
pluggableVars == <<_actions, removeIssued, updateCalls, pluggableCall,
                   pluggableResult, ran>>
entryVars == <<hass_data, entryPc, entryResult>>
\* what no coroutine of the entity writes
hostVars    == <<removed, other, otherCalledInWait, philipsVars, pluggableVars,
                 entryVars>>
vars == <<_is_awaiting_power_on, _power, _volume, _muted, _input_source,
          _available, available, connected, updatePc, updateFault, updateResult,
          turnOnPc, turnOnResult, powerOnFault, cmdPc, cmdCall, cmdArg, cmdResult,
          removed, other, otherCalledInWait,
          api, options, _notify_future, tasks, _listeners, updateDataPc,
          notifyRequests, updateDataResult, updateDataListeners, notifyResult,
          updatedDataCalls,
          _actions, removeIssued, updateCalls, pluggableCall, pluggableResult, ran,
          hass_data, entryPc, entryResult>>

----------------------------------------------------------------------------
(* Bounds of the inputs the device and the host supply.                    *)

\* status tuples carry a volume in 0..MaxStatusVolume
MaxStatusVolume == 1
\* status tuples carry one of the first MaxStatusSource keys of SOURCE_MAP
MaxStatusSource == 2
\* select_source is called with one of the first MaxSelectSource names of
\* source_list, or with a name that is not in the list
MaxSelectSource == 2
\* how many notify tasks the coordinator may create in one behaviour
MaxTasks == 2
\* how many listeners register with the coordinator
MaxListeners == 2
\* how many actions are attached to the PluggableAction in one behaviour
MaxAttach == 3
\* how many config entries each integration has
MaxEntries == 2

----------------------------------------------------------------------------
(* SOURCE_MAP, in the insertion order of the dict literal:                 *)
(* <<INPUT_SOURCE.INPUT_SOURCE_STATE member, SOURCE_* constant>>.          *)
SOURCE_MAP ==
    << <<"NONE", "SOURCE_NONE">>,
       <<"S_VIDEO", "SOURCE_S_VIDEO">>,
       <<"COMPONENT", "SOURCE_COMPONENT">>,
       <<"AV", "SOURCE_AV">>,
       <<"AV2", "SOURCE_AV2">>,
       <<"SCART1", "SOURCE_SCART1">>,
       <<"DVI", "SOURCE_DVI">>,
       <<"PC", "SOURCE_PC">>,
       <<"BNC", "SOURCE_BNC">>,
       <<"DVI_VIDEO", "SOURCE_DVI_VIDEO">>,
       <<"MAGIC_INFO", "SOURCE_MAGIC_INFO">>,
       <<"HDMI1", "SOURCE_HDMI1">>,
       <<"HDMI1_PC", "SOURCE_HDMI1_PC">>,
       <<"HDMI2", "SOURCE_HDMI2">>,
       <<"HDMI2_PC", "SOURCE_HDMI2_PC">>,
       <<"DISPLAY_PORT_1", "SOURCE_DISPLAY_PORT_1">>,
       <<"DISPLAY_PORT_2", "SOURCE_DISPLAY_PORT_2">>,
       <<"DISPLAY_PORT_3", "SOURCE_DISPLAY_PORT_3">>,
       <<"RF_TV", "SOURCE_RF_TV">>,
       <<"HDMI3", "SOURCE_HDMI3">>,
       <<"HDMI3_PC", "SOURCE_HDMI3_PC">>,
       <<"HDMI4", "SOURCE_HDMI4">>,
       <<"HDMI4_PC", "SOURCE_HDMI4_PC">>,
       <<"TV_DTV", "SOURCE_TV_DTV">>,
       <<"PLUG_IN_MODE", "SOURCE_PLUG_IN_MODE">>,
       <<"HD_BASE_T", "SOURCE_HD_BASE_T">>,
       <<"MEDIA_MAGIC_INFO_S", "SOURCE_MEDIA_MAGIC_INFO_S">>,
       <<"WIDI_SCREEN_MIRRORING", "SOURCE_WIDI_SCREEN_MIRRORING">>,
       <<"INTERNAL_USB", "SOURCE_INTERNAL_USB">>,
       <<"URL_LAUNCHER", "SOURCE_URL_LAUNCHER">>,
       <<"IWB", "SOURCE_IWB">> >>

\* list(SOURCE_MAP.keys())
SourceKeys == [i \in 1..Len(SOURCE_MAP) |-> SOURCE_MAP[i][1]]

\* SamsungMDCDisplay.source_list: list(SOURCE_MAP.values())
source_list == [i \in 1..Len(SOURCE_MAP) |-> SOURCE_MAP[i][2]]

\* SOURCE_MAP[key], the dict lookup used by SamsungMDCDisplay.source
SourceOfKey(key) ==
    SOURCE_MAP[CHOOSE i \in 1..Len(SOURCE_MAP) : SOURCE_MAP[i][1] = key][2]

\* list.index with the position counted from 0 and then read as if from 1
ListIndex_zero_based(list, x) ==
    IF \E i \in 1..Len(list) : list[i] = x
    THEN (CHOOSE i \in 1..Len(list) :
            /\ list[i] = x
            /\ \A j \in 1..(i - 1) : list[j] # x) - 1
    ELSE 0

\* list.index(x): the position of the first element equal to x, counted from 1
\* here; 0 stands for the ValueError list.index raises when x is not in the list.
ListIndex(list, x) ==
    IF \E i \in 1..Len(list) : list[i] = x
    THEN CHOOSE i \in 1..Len(list) :
            /\ list[i] = x
            /\ \A j \in 1..(i - 1) : list[j] # x
    ELSE 0

----------------------------------------------------------------------------
(* Inputs.                                                                 *)

\* POWER.POWER_STATE members a status tuple can carry
PowerStates == {"ON", "OFF", "REBOOT"}
\* MUTE.MUTE_STATE members a status tuple can carry
MuteStates == {"ON", "OFF", "NONE"}
StatusVolumes == 0..MaxStatusVolume
StatusSources == {SourceKeys[i] : i \in 1..MaxStatusSource}
\* the exceptions of samsung_mdc.exceptions the code names, most specific first
MDCFaults == {"MDCReadTimeoutError", "MDCResponseError", "MDCError"}

----------------------------------------------------------------------------
\* SamsungMDCDisplay.__init__, and the second entity built the same way
EntityInit ==
    /\ _is_awaiting_power_on = FALSE
    /\ _power = FALSE
    /\ _volume = <<>>
    /\ _muted = FALSE
    /\ _input_source = <<>>
    /\ _available = TRUE
    /\ available = TRUE
    /\ connected = FALSE
    /\ updatePc = "idle"
    /\ updateFault = "none"
    /\ updateResult = "none"
    /\ turnOnPc = "idle"
    /\ turnOnResult = "none"
    /\ powerOnFault = "none"
    /\ cmdPc = "idle"
    /\ cmdCall = <<>>
    /\ cmdArg = <<>>
    /\ cmdResult = "none"
    /\ removed = FALSE
    /\ other = [_is_awaiting_power_on |-> FALSE, _power |-> FALSE,
                _volume |-> <<>>, _muted |-> FALSE, _input_source |-> <<>>,
                _available |-> TRUE, available |-> TRUE, connected |-> FALSE,
                updatePc |-> "idle", updateFault |-> "none",
                updateResult |-> "none"]
    /\ otherCalledInWait = FALSE

\* PhilipsTVDataUpdateCoordinator.__init__ over a PhilipsTV object that has
\* not talked to the TV yet; no listener is registered and no poll runs
CoordinatorInit ==
    /\ api = [on |-> FALSE, powerstate |-> "None", notify_change_supported |-> FALSE]
    /\ _notify_future = 0
    /\ tasks = [i \in 1..MaxTasks |-> "unborn"]
    /\ _listeners = 0
    /\ updateDataPc = "idle"
    /\ notifyRequests = 0
    /\ updateDataResult = "none"
    /\ updateDataListeners = 0
    /\ notifyResult = "none"
    /\ updatedDataCalls = 0

\* PluggableAction.__init__
PluggableInit ==
    /\ _actions = <<>>
    /\ removeIssued = 0
    /\ updateCalls = 0
    /\ pluggableCall = <<>>
    /\ pluggableResult = "none"
    /\ ran = <<>>

\* the two integrations that keep their coordinators in hass.data
Domains == {"philips_js", "version"}
\* the config entries of one domain
EntryIds == 1..MaxEntries

\* hass.data before any entry is set up
EntriesInit ==
    /\ hass_data = [domain \in Domains |-> <<>>]
    /\ entryPc = [domain \in Domains |-> [entry_id \in EntryIds |-> "not_loaded"]]
    /\ entryResult = <<>>

\* one display entity; the coordinator of an entry without the notify option
Init ==
    /\ EntityInit
    /\ CoordinatorInit
    /\ options = [allow_notify |-> FALSE]
    /\ PluggableInit
    /\ EntriesInit

----------------------------------------------------------------------------
(* async_update                                                            *)

\* async_update without the awaiting-power-on guard
async_update_unguarded ==
    /\ ~removed
    /\ updatePc = "idle"
    /\ updatePc' = "status"
    /\ updateFault' = "none"
    /\ updateResult' = "running"
    /\ connected' = TRUE
    /\ UNCHANGED <<DeviceState, turnOnVars, cmdVars>>
    /\ UNCHANGED hostVars

\* async_update up to its first suspension point: the awaiting-power-on guard,
\* then the status request is issued (the connection opens lazily).
async_update ==
    /\ ~removed
    /\ updatePc = "idle"
    /\ IF _is_awaiting_power_on
       THEN /\ updatePc' = "idle"
            /\ updateFault' = "none"
            /\ updateResult' = "skipped"
            /\ UNCHANGED connected
       ELSE /\ updatePc' = "status"
            /\ updateFault' = "none"
            /\ updateResult' = "running"
            /\ connected' = TRUE
    /\ UNCHANGED <<DeviceState, turnOnVars, cmdVars>>
    /\ UNCHANGED hostVars

\* the installation of a status tuple with a suspension point in the middle:
\* power and volume are assigned, the rest is left for after the await
async_update_status_split ==
    /\ updatePc = "status"
    /\ \E power_state \in PowerStates, volume_level \in StatusVolumes :
         /\ _power' = IF power_state = "ON" THEN TRUE ELSE FALSE
         /\ _volume' = <<volume_level>>
    /\ updatePc' = "installing"
    /\ UNCHANGED <<_is_awaiting_power_on, _muted, _input_source, _available,
                   available, connected, updateFault, updateResult,
                   turnOnVars, cmdVars>>
    /\ UNCHANGED hostVars

\* mdc.status returned a tuple: the assignments of lines 245-263, which hold no await.
async_update_status ==
    /\ updatePc = "status"
    /\ \E power_state \in PowerStates, volume_level \in StatusVolumes,
          mute_state \in MuteStates, input_state \in StatusSources :
         /\ _power' = IF power_state = "ON" THEN TRUE
                      ELSE IF power_state = "OFF" THEN FALSE
                      ELSE IF power_state = "REBOOT" THEN FALSE
                      ELSE _power
         /\ _volume' = <<volume_level>>
         /\ _muted' = IF mute_state = "ON" THEN TRUE ELSE FALSE
         /\ _input_source' = <<input_state>>
    /\ updatePc' = "idle"
    /\ updateResult' = "updated"
    /\ UNCHANGED <<_is_awaiting_power_on, _available, available, connected,
                   updateFault, turnOnVars, cmdVars>>
    /\ UNCHANGED hostVars

\* mdc.status raised MDCReadTimeoutError and the base class refuses the
\* assignment `self.available = False` (a property without a setter): the
\* AttributeError leaves the handler before mdc.close() is called.
async_update_timeout_readonly ==
    /\ updatePc = "status"
    /\ updatePc' = "idle"
    /\ updateFault' = "MDCReadTimeoutError"
    /\ updateResult' = "AttributeError"
    /\ UNCHANGED <<DeviceState, connected, turnOnVars, cmdVars>>
    /\ UNCHANGED hostVars

\* mdc.status raised MDCReadTimeoutError and the base class accepts the
\* assignment `self.available = False`; the handler then awaits mdc.close().
async_update_timeout_assigned ==
    /\ updatePc = "status"
    /\ available' = FALSE
    /\ updatePc' = "close"
    /\ updateFault' = "MDCReadTimeoutError"
    /\ UNCHANGED <<_is_awaiting_power_on, _power, _volume, _muted, _input_source,
                   _available, connected, updateResult, turnOnVars, cmdVars>>
    /\ UNCHANGED hostVars

\* mdc.status raised MDCResponseError: logged, then the handler awaits mdc.close().
async_update_response_error ==
    /\ updatePc = "status"
    /\ updatePc' = "close"
    /\ updateFault' = "MDCResponseError"
    /\ UNCHANGED <<DeviceState, connected, updateResult, turnOnVars, cmdVars>>
    /\ UNCHANGED hostVars

\* the MDCError handler also forgetting the last known volume
async_update_mdc_error_reset ==
    /\ updatePc = "status"
    /\ _available' = FALSE
    /\ _volume' = <<>>
    /\ updatePc' = "close"
    /\ updateFault' = "MDCError"
    /\ UNCHANGED <<_is_awaiting_power_on, _power, _muted, _input_source,
                   available, connected, updateResult, turnOnVars, cmdVars>>
    /\ UNCHANGED hostVars

\* mdc.status raised another MDCError: _available is cleared, then the handler
\* awaits mdc.close().
async_update_mdc_error ==
    /\ updatePc = "status"
    /\ _available' = FALSE
    /\ updatePc' = "close"
    /\ updateFault' = "MDCError"
    /\ UNCHANGED <<_is_awaiting_power_on, _power, _volume, _muted, _input_source,
                   available, connected, updateResult, turnOnVars, cmdVars>>
    /\ UNCHANGED hostVars

\* mdc.close() returned in a handler.  Only the MDCError handler returns; the
\* other two fall through to line 245, where `status` is unbound.
async_update_closed ==
    /\ updatePc = "close"
    /\ connected' = FALSE
    /\ updatePc' = "idle"
    /\ updateResult' = IF updateFault = "MDCError" THEN "returned"
                       ELSE "UnboundLocalError"
    /\ UNCHANGED <<DeviceState, updateFault, turnOnVars, cmdVars>>
    /\ UNCHANGED hostVars

----------------------------------------------------------------------------
(* async_turn_on                                                           *)

\* async_turn_on without the `if not self._power` guard
async_turn_on_unguarded ==
    /\ ~removed
    /\ turnOnPc = "idle"
    /\ _is_awaiting_power_on' = TRUE
    /\ turnOnPc' = "power"
    /\ turnOnResult' = "running"
    /\ powerOnFault' = "none"
    /\ connected' = TRUE
    /\ UNCHANGED <<_power, _volume, _muted, _input_source, _available, available,
                   updateVars, cmdVars>>
    /\ UNCHANGED hostVars

\* async_turn_on up to its first suspension point: nothing when the display is
\* on, else the flag is set and the power-on command is issued.
async_turn_on ==
    /\ ~removed
    /\ turnOnPc = "idle"
    /\ IF ~_power
       THEN /\ _is_awaiting_power_on' = TRUE
            /\ turnOnPc' = "power"
            /\ turnOnResult' = "running"
            /\ connected' = TRUE
       ELSE /\ turnOnPc' = "idle"
            /\ turnOnResult' = "returned_already_on"
            /\ UNCHANGED <<_is_awaiting_power_on, connected>>
    /\ powerOnFault' = "none"
    /\ UNCHANGED <<_power, _volume, _muted, _input_source, _available, available,
                   updateVars, cmdVars>>
    /\ UNCHANGED hostVars

\* mdc.power returned, or raised the MDCResponseError the code passes over:
\* _power is set and mdc.close() is awaited.
async_turn_on_power ==
    /\ turnOnPc = "power"
    /\ powerOnFault' \in {"none", "MDCResponseError"}
    /\ _power' = TRUE
    /\ turnOnPc' = "close"
    /\ UNCHANGED <<_is_awaiting_power_on, _volume, _muted, _input_source,
                   _available, available, connected, turnOnResult,
                   updateVars, cmdVars>>
    /\ UNCHANGED hostVars

\* async_turn_on without the `except MDCResponseError` clause
async_turn_on_power_raised_any ==
    /\ turnOnPc = "power"
    /\ \E exc \in MDCFaults :
         /\ powerOnFault' = exc
         /\ turnOnResult' = exc
    /\ turnOnPc' = "idle"
    /\ UNCHANGED <<DeviceState, connected, updateVars, cmdVars>>
    /\ UNCHANGED hostVars

\* mdc.power raised an exception other than MDCResponseError: it leaves
\* async_turn_on at line 270.
async_turn_on_power_raised ==
    /\ turnOnPc = "power"
    /\ \E exc \in MDCFaults \ {"MDCResponseError"} :
         /\ powerOnFault' = exc
         /\ turnOnResult' = exc
    /\ turnOnPc' = "idle"
    /\ UNCHANGED <<DeviceState, connected, updateVars, cmdVars>>
    /\ UNCHANGED hostVars

\* mdc.close() returned: asyncio.sleep(15) is awaited.
async_turn_on_closed ==
    /\ turnOnPc = "close"
    /\ connected' = FALSE
    /\ turnOnPc' = "sleep"
    /\ UNCHANGED <<DeviceState, turnOnResult, powerOnFault, updateVars, cmdVars>>
    /\ UNCHANGED hostVars

\* asyncio.sleep(15) returned: the flag is cleared and async_turn_on returns.
async_turn_on_slept ==
    /\ turnOnPc = "sleep"
    /\ _is_awaiting_power_on' = FALSE
    /\ turnOnPc' = "idle"
    /\ turnOnResult' = "returned"
    /\ powerOnFault' = "none"
    /\ UNCHANGED <<_power, _volume, _muted, _input_source, _available, available,
                   connected, updateVars, cmdVars>>
    /\ UNCHANGED hostVars

----------------------------------------------------------------------------
(* async_turn_off, async_mute_volume, async_set_volume_level,              *)
(* async_select_source: each forwards one command and returns its result.  *)

\* the levels the host passes to async_set_volume_level, in thousandths
\* (500 is the level 0.5)
VolumeLevels == {0, 5, 15, 500, 1000, 1500}

\* the level as the host writes it
LevelText(thousandths) ==
    CASE thousandths = 0 -> "0.0"
      [] thousandths = 5 -> "0.005"
      [] thousandths = 15 -> "0.015"
      [] thousandths = 500 -> "0.5"
      [] thousandths = 1000 -> "1.0"
      [] thousandths = 1500 -> "1.5"

\* round(volume * 100) for a level given in thousandths: Python rounds a tie
\* to the even neighbour.
RoundPct(thousandths) ==
    LET q == thousandths \div 10
        r == thousandths % 10
    IN  IF r < 5 THEN q
        ELSE IF r > 5 THEN q + 1
        ELSE IF q % 2 = 0 THEN q ELSE q + 1

\* the names the host passes to async_select_source
SelectSources == {source_list[i] : i \in 1..MaxSelectSource} \cup {"SOURCE_UNKNOWN"}

\* async_turn_off that also records the display as off
async_turn_off_optimistic ==
    /\ ~removed
    /\ cmdPc = "idle"
    /\ cmdCall' = <<"async_turn_off", "">>
    /\ cmdPc' = "power"
    /\ cmdArg' = <<"power", "OFF">>
    /\ cmdResult' = "running"
    /\ connected' = TRUE
    /\ _power' = FALSE
    /\ UNCHANGED <<_is_awaiting_power_on, _volume, _muted, _input_source,
                   _available, available, updateVars, turnOnVars>>
    /\ UNCHANGED hostVars

async_turn_off ==
    /\ ~removed
    /\ cmdPc = "idle"
    /\ cmdCall' = <<"async_turn_off", "">>
    /\ cmdPc' = "power"
    /\ cmdArg' = <<"power", "OFF">>
    /\ cmdResult' = "running"
    /\ connected' = TRUE
    /\ UNCHANGED <<DeviceState, updateVars, turnOnVars>>
    /\ UNCHANGED hostVars

async_mute_volume ==
    /\ ~removed
    /\ cmdPc = "idle"
    /\ \E mute \in BOOLEAN :
         /\ cmdCall' = <<"async_mute_volume", IF mute THEN "True" ELSE "False">>
         /\ cmdArg' = <<"mute", IF mute THEN "ON" ELSE "OFF">>
    /\ cmdPc' = "mute"
    /\ cmdResult' = "running"
    /\ connected' = TRUE
    /\ UNCHANGED <<DeviceState, updateVars, turnOnVars>>
    /\ UNCHANGED hostVars

async_set_volume_level ==
    /\ ~removed
    /\ cmdPc = "idle"
    /\ \E volume \in VolumeLevels :
         LET vol_pct == RoundPct(volume)
         IN  /\ cmdCall' = <<"async_set_volume_level", LevelText(volume)>>
             /\ cmdArg' = <<"volume", vol_pct>>
    /\ cmdPc' = "volume"
    /\ cmdResult' = "running"
    /\ connected' = TRUE
    /\ UNCHANGED <<DeviceState, updateVars, turnOnVars>>
    /\ UNCHANGED hostVars

\* source_list.index(source) raises ValueError before anything is sent when the
\* name is not in the list; else the key at the same position is sent.
async_select_source ==
    /\ ~removed
    /\ cmdPc = "idle"
    /\ \E source \in SelectSources :
         LET position == ListIndex(source_list, source)
         IN  /\ cmdCall' = <<"async_select_source", source>>
             /\ IF position = 0
                THEN /\ cmdPc' = "idle"
                     /\ cmdArg' = <<>>
                     /\ cmdResult' = "ValueError"
                     /\ UNCHANGED connected
                ELSE /\ cmdPc' = "input_source"
                     /\ cmdArg' = <<"input_source", SourceKeys[position]>>
                     /\ cmdResult' = "running"
                     /\ connected' = TRUE
    /\ UNCHANGED <<DeviceState, updateVars, turnOnVars>>
    /\ UNCHANGED hostVars

\* the awaited mdc method returned: the command returns its result.
command_returned ==
    /\ cmdPc # "idle"
    /\ cmdPc' = "idle"
    /\ cmdArg' = <<>>
    /\ cmdResult' = "returned"
    /\ UNCHANGED <<DeviceState, connected, cmdCall, updateVars, turnOnVars>>
    /\ UNCHANGED hostVars

\* the awaited mdc method raised: no handler, the exception reaches the caller.
command_raised ==
    /\ cmdPc # "idle"
    /\ \E exc \in MDCFaults :
         cmdResult' = exc
    /\ cmdPc' = "idle"
    /\ cmdArg' = <<>>
    /\ UNCHANGED <<DeviceState, connected, cmdCall, updateVars, turnOnVars>>
    /\ UNCHANGED hostVars

----------------------------------------------------------------------------
Next ==
    \/ async_update
    \/ async_update_status
    \/ async_update_timeout_readonly
    \/ async_update_timeout_assigned
    \/ async_update_response_error
    \/ async_update_mdc_error
    \/ async_update_closed
    \/ async_turn_on
    \/ async_turn_on_power
    \/ async_turn_on_power_raised
    \/ async_turn_on_closed
    \/ async_turn_on_slept
    \/ async_turn_off
    \/ async_mute_volume
    \/ async_set_volume_level
    \/ async_select_source
    \/ command_returned
    \/ command_raised

Spec == Init /\ [][Next]_vars

----------------------------------------------------------------------------
(* Teardown.  SamsungMDCDisplay defines no removal hook and                *)
(* async_setup_entry registers no unload callback: when the host removes   *)
(* the entity it stops calling its methods, and nothing in the entity      *)
(* reacts.  The coroutines that are suspended at that moment run on.       *)
teardown ==
    /\ ~removed
    /\ removed' = TRUE
    /\ UNCHANGED <<DeviceState, connected, updateVars, turnOnVars, cmdVars,
                   other, otherCalledInWait, philipsVars, pluggableVars, entryVars>>

NextTeardown ==
    \/ Next
    \/ teardown

SpecTeardown == Init /\ [][NextTeardown]_vars

----------------------------------------------------------------------------
(* Two displays in one process.  async_setup_entry builds one MDC and one  *)
(* SamsungMDCDisplay per config entry; every attribute the methods read or *)
(* write is an attribute of self.  `other` is the second entity, and the   *)
(* actions below are its async_update, the same code run on its own state. *)
thisVars == <<DeviceState, connected, updateVars, turnOnVars, cmdVars, removed>>

\* async_update of the other entity with the flag read from a shared
\* (class-level) attribute, here the flag of this entity
other_async_update_shared_flag ==
    /\ other.updatePc = "idle"
    /\ other' = IF _is_awaiting_power_on
                THEN [other EXCEPT !.updateFault = "none", !.updateResult = "skipped"]
                ELSE [other EXCEPT !.updatePc = "status", !.updateFault = "none",
                                   !.updateResult = "running", !.connected = TRUE]
    /\ otherCalledInWait' = (turnOnPc = "sleep")
    /\ UNCHANGED <<thisVars, philipsVars, pluggableVars, entryVars>>

other_async_update ==
    /\ other.updatePc = "idle"
    /\ other' = IF other._is_awaiting_power_on
                THEN [other EXCEPT !.updateFault = "none", !.updateResult = "skipped"]
                ELSE [other EXCEPT !.updatePc = "status", !.updateFault = "none",
                                   !.updateResult = "running", !.connected = TRUE]
    /\ otherCalledInWait' = (turnOnPc = "sleep")
    /\ UNCHANGED <<thisVars, philipsVars, pluggableVars, entryVars>>

other_async_update_status ==
    /\ other.updatePc = "status"
    /\ \E power_state \in PowerStates, volume_level \in StatusVolumes,
          mute_state \in MuteStates, input_state \in StatusSources :
         other' = [other EXCEPT
                     !._power = IF power_state = "ON" THEN TRUE
                                ELSE IF power_state = "OFF" THEN FALSE
                                ELSE IF power_state = "REBOOT" THEN FALSE
                                ELSE @,
                     !._volume = <<volume_level>>,
                     !._muted = IF mute_state = "ON" THEN TRUE ELSE FALSE,
                     !._input_source = <<input_state>>,
                     !.updatePc = "idle",
                     !.updateResult = "updated"]
    /\ UNCHANGED <<thisVars, otherCalledInWait, philipsVars, pluggableVars, entryVars>>

other_async_update_timeout_readonly ==
    /\ other.updatePc = "status"
    /\ other' = [other EXCEPT !.updatePc = "idle",
                              !.updateFault = "MDCReadTimeoutError",
                              !.updateResult = "AttributeError"]
    /\ UNCHANGED <<thisVars, otherCalledInWait, philipsVars, pluggableVars, entryVars>>

other_async_update_timeout_assigned ==
    /\ other.updatePc = "status"
    /\ other' = [other EXCEPT !.available = FALSE,
                              !.updatePc = "close",
                              !.updateFault = "MDCReadTimeoutError"]
    /\ UNCHANGED <<thisVars, otherCalledInWait, philipsVars, pluggableVars, entryVars>>

other_async_update_response_error ==
    /\ other.updatePc = "status"
    /\ other' = [other EXCEPT !.updatePc = "close",
                              !.updateFault = "MDCResponseError"]
    /\ UNCHANGED <<thisVars, otherCalledInWait, philipsVars, pluggableVars, entryVars>>

other_async_update_mdc_error ==
    /\ other.updatePc = "status"
    /\ other' = [other EXCEPT !._available = FALSE,
                              !.updatePc = "close",
                              !.updateFault = "MDCError"]
    /\ UNCHANGED <<thisVars, otherCalledInWait, philipsVars, pluggableVars, entryVars>>

other_async_update_closed ==
    /\ other.updatePc = "close"
    /\ other' = [other EXCEPT
                     !.connected = FALSE,
                     !.updatePc = "idle",
                     !.updateResult = IF other.updateFault = "MDCError"
                                      THEN "returned" ELSE "UnboundLocalError"]
    /\ UNCHANGED <<thisVars, otherCalledInWait, philipsVars, pluggableVars, entryVars>>

\* this entity turns on while the other one is polled
NextTwo ==
    \/ async_turn_on
    \/ async_turn_on_power
    \/ async_turn_on_power_raised
    \/ async_turn_on_closed
    \/ async_turn_on_slept
    \/ other_async_update
    \/ other_async_update_status
    \/ other_async_update_timeout_readonly
    \/ other_async_update_timeout_assigned
    \/ other_async_update_response_error
    \/ other_async_update_mdc_error
    \/ other_async_update_closed

SpecTwo == Init /\ [][NextTwo]_vars

----------------------------------------------------------------------------
(* The Philips TV coordinator.  A poll (_async_update_data) asks the TV    *)
(* for its state and then schedules the notify task; the notify task is an *)
(* asyncio task that long-polls the TV with notifyChange.  Callbacks run   *)
(* to completion; the two coroutines are suspended only in api.update()    *)
(* and in api.notifyChange().                                              *)
displayVars == <<thisVars, other, otherCalledInWait>>

ApiPowerStates == {"On", "Standby"}
\* what the TV may report: the fields of PhilipsTV after a request
ApiStates == [on : BOOLEAN, powerstate : ApiPowerStates,
              notify_change_supported : BOOLEAN]

\* the notify condition without the test of the power state
_notify_wanted_on_only(tv, opts) ==
    /\ tv.on
    /\ tv.notify_change_supported
    /\ opts.allow_notify

\* the property _notify_wanted, over the api fields tv and the options opts
_notify_wanted(tv, opts) ==
    /\ tv.on
    /\ tv.powerstate = "On"
    /\ tv.notify_change_supported
    /\ opts.allow_notify

\* asyncio.Task.done() of task t.  A task is "created" until it first runs,
\* "notifyChange" while it awaits a request, "done" once _notify_task has
\* returned and "cancelled" once cancel() has been called on it
TaskDone(t) == tasks[t] \in {"done", "cancelled"}

\* _async_notify_stop: cancel the recorded task and clear the handle
_async_notify_stop ==
    IF _notify_future # 0
    THEN /\ tasks' = IF TaskDone(_notify_future) THEN tasks
                     ELSE [tasks EXCEPT ![_notify_future] = "cancelled"]
         /\ _notify_future' = 0
    ELSE UNCHANGED <<_notify_future, tasks>>

\* _async_notify_schedule without the test of the recorded task
_async_notify_schedule_unguarded(tv) ==
    IF _notify_wanted(tv, options)
    THEN \E t \in 1..MaxTasks :
            /\ tasks[t] = "unborn"
            /\ \A u \in 1..(t - 1) : tasks[u] # "unborn"
            /\ _notify_future' = t
            /\ tasks' = [tasks EXCEPT ![t] = "created"]
    ELSE UNCHANGED <<_notify_future, tasks>>

\* _async_notify_schedule, called when the api fields are tv
_async_notify_schedule(tv) ==
    IF _notify_future # 0 /\ ~TaskDone(_notify_future)
    THEN UNCHANGED <<_notify_future, tasks>>
    ELSE IF _notify_wanted(tv, options)
         THEN \E t \in 1..MaxTasks :
                 /\ tasks[t] = "unborn"
                 /\ \A u \in 1..(t - 1) : tasks[u] # "unborn"
                 /\ _notify_future' = t
                 /\ tasks' = [tasks EXCEPT ![t] = "created"]
         ELSE UNCHANGED <<_notify_future, tasks>>

\* _async_update_data is called and awaits api.update()
_async_update_data ==
    /\ updateDataPc = "idle"
    /\ updateDataPc' = "update"
    /\ updateDataResult' = "running"
    /\ updateDataListeners' = _listeners
    /\ UNCHANGED <<api, options, _notify_future, tasks, _listeners, notifyRequests,
                   notifyResult, updatedDataCalls>>
    /\ UNCHANGED <<displayVars, pluggableVars, entryVars>>

\* api.update() returns with the TV's state; the notify task is scheduled
_async_update_data_updated ==
    /\ updateDataPc = "update"
    /\ \E tv \in ApiStates :
          /\ api' = tv
          /\ _async_notify_schedule(tv)
          /\ updateDataResult' =
                IF _notify_future # 0 /\ ~TaskDone(_notify_future) THEN "task_running"
                ELSE IF _notify_wanted(tv, options) THEN "task_created"
                ELSE "not_wanted"
    /\ updateDataPc' = "idle"
    /\ UNCHANGED <<updateDataListeners, options, _listeners, notifyRequests, notifyResult, updatedDataCalls>>
    /\ UNCHANGED <<displayVars, pluggableVars, entryVars>>

\* a failed poll that schedules the notify task all the same, as if the call
\* of _async_notify_schedule stood in a finally clause
_async_update_data_failed_schedules ==
    /\ updateDataPc = "update"
    /\ \E tv \in {api, [api EXCEPT !.on = FALSE]} :
          /\ api' = tv
          /\ _async_notify_schedule(tv)
    /\ updateDataPc' = "idle"
    /\ updateDataResult' = "ConnectionFailure_swallowed"
    /\ UNCHANGED <<updateDataListeners, options, _listeners, notifyRequests,
                   notifyResult, updatedDataCalls>>
    /\ UNCHANGED <<displayVars, pluggableVars, entryVars>>

\* api.update() raises ConnectionFailure, which is swallowed
_async_update_data_failed ==
    /\ updateDataPc = "update"
    /\ \E tv \in {api, [api EXCEPT !.on = FALSE]} : api' = tv
    /\ updateDataPc' = "idle"
    /\ updateDataResult' = "ConnectionFailure_swallowed"
    /\ UNCHANGED <<updateDataListeners, options, _notify_future, tasks, _listeners, notifyRequests,
                   notifyResult, updatedDataCalls>>
    /\ UNCHANGED <<displayVars, pluggableVars, entryVars>>

\* the loop test of _notify_task in task t with the api fields tv: start a
\* notifyChange request, or leave the loop
_notify_task_loop(t, tv) ==
    IF _notify_wanted(tv, options)
    THEN /\ tasks' = [tasks EXCEPT ![t] = "notifyChange"]
         /\ notifyRequests' = 1 - notifyRequests
    ELSE /\ tasks' = [tasks EXCEPT ![t] = "done"]
         /\ UNCHANGED notifyRequests

\* a created task starts to run _notify_task
_notify_task ==
    /\ \E t \in 1..MaxTasks :
          /\ tasks[t] = "created"
          /\ _notify_task_loop(t, api)
    /\ UNCHANGED <<api, options, _notify_future, _listeners, updateDataPc,
                   updateDataResult, updateDataListeners, notifyResult,
                   updatedDataCalls>>
    /\ UNCHANGED <<displayVars, pluggableVars, entryVars>>

\* a notify loop without the `elif res is None: break`
_notify_task_result_no_abort ==
    /\ \E t \in 1..MaxTasks, res \in {"True", "False", "None"}, tv \in ApiStates :
          /\ tasks[t] = "notifyChange"
          /\ api' = tv
          /\ notifyResult' = res
          /\ updatedDataCalls' = IF res = "True" THEN 1 - updatedDataCalls
                                 ELSE updatedDataCalls
          /\ _notify_task_loop(t, tv)
    /\ UNCHANGED <<options, _notify_future, _listeners, updateDataPc, updateDataResult,
                   updateDataListeners>>
    /\ UNCHANGED <<displayVars, pluggableVars, entryVars>>

\* notifyChange returns res in task t, leaving the api fields tv: None ends
\* the loop, anything else goes back to the loop test
_notify_task_result ==
    /\ \E t \in 1..MaxTasks, res \in {"True", "False", "None"}, tv \in ApiStates :
          /\ tasks[t] = "notifyChange"
          /\ api' = tv
          /\ notifyResult' = res
          /\ updatedDataCalls' = IF res = "True" THEN 1 - updatedDataCalls
                                 ELSE updatedDataCalls
          /\ IF res = "None"
             THEN /\ tasks' = [tasks EXCEPT ![t] = "done"]
                  /\ UNCHANGED notifyRequests
             ELSE _notify_task_loop(t, tv)
    /\ UNCHANGED <<options, _notify_future, _listeners, updateDataPc, updateDataResult,
                   updateDataListeners>>
    /\ UNCHANGED <<displayVars, pluggableVars, entryVars>>

\* a listener registers with the coordinator
async_add_listener ==
    /\ _listeners < MaxListeners
    /\ _listeners' = _listeners + 1
    /\ UNCHANGED <<api, options, _notify_future, tasks, updateDataPc, notifyRequests,
                   updateDataResult, updateDataListeners, notifyResult,
                   updatedDataCalls>>
    /\ UNCHANGED <<displayVars, pluggableVars, entryVars>>

async_remove_listener ==
    /\ _listeners > 0
    /\ _listeners' = _listeners - 1
    /\ IF _listeners = 1
       THEN _async_notify_stop
       ELSE UNCHANGED <<_notify_future, tasks>>
    /\ UNCHANGED <<api, options, updateDataPc, notifyRequests,
                   updateDataResult, updateDataListeners, notifyResult,
                   updatedDataCalls>>
    /\ UNCHANGED <<displayVars, pluggableVars, entryVars>>

_async_stop_refresh ==
    /\ _async_notify_stop
    /\ UNCHANGED <<api, options, _listeners, updateDataPc, notifyRequests,
                   updateDataResult, updateDataListeners, notifyResult,
                   updatedDataCalls>>
    /\ UNCHANGED <<displayVars, pluggableVars, entryVars>>

\* the coordinator of an entry with or without the notify option
InitPhilips ==
    /\ EntityInit
    /\ CoordinatorInit
    /\ options \in [allow_notify : BOOLEAN]
    /\ PluggableInit
    /\ EntriesInit

NextPhilips ==
    \/ _async_update_data
    \/ _async_update_data_updated
    \/ _async_update_data_failed
    \/ _notify_task
    \/ _notify_task_result
    \/ async_add_listener
    \/ async_remove_listener
    \/ _async_stop_refresh

SpecPhilips == InitPhilips /\ [][NextPhilips]_vars

\* the notify tasks that are neither finished nor cancelled
LiveTasks == {t \in 1..MaxTasks : tasks[t] \in {"created", "notifyChange"}}
\* the step in which notifyChange returns in task t: the task leaves the
\* loop or starts its next request
NotifyReturns(t) ==
    /\ tasks[t] = "notifyChange"
    /\ \/ tasks'[t] = "done"
       \/ tasks'[t] = "notifyChange" /\ notifyRequests' # notifyRequests
\* the step in which api.update() returns or raises in _async_update_data
PollEnds == updateDataPc = "update" /\ updateDataPc' = "idle"

----------------------------------------------------------------------------
(* PluggableAction: a dictionary of attached actions keyed by their remove *)
(* callbacks.  The n-th callback async_attach returns is written n; a      *)
(* dictionary keeps its keys in insertion order, so _actions is a sequence *)
(* of <<remove callback, action, variables>>.                              *)
AttachActions == {"action_a", "action_b"}
AttachVariables == {"None", "variables"}

\* the keys of the dictionary
Keys(actions) == {actions[i][1] : i \in 1..Len(actions)}

\* PluggableAction.__bool__
__bool__ == Len(_actions) > 0

async_attach ==
    /\ removeIssued < MaxAttach
    /\ \E action \in AttachActions, variables \in AttachVariables :
          _actions' = Append(_actions, <<removeIssued + 1, action, variables>>)
    /\ removeIssued' = removeIssued + 1
    /\ updateCalls' = updateCalls + 1
    /\ pluggableCall' = <<"async_attach", removeIssued + 1>>
    /\ pluggableResult' = "returned"
    /\ UNCHANGED ran
    /\ UNCHANGED <<displayVars, philipsVars, entryVars>>

\* a remove callback that deletes the action attached last
_remove_last ==
    /\ \E r \in 1..removeIssued :
          /\ pluggableCall' = <<"_remove", r>>
          /\ IF r \in Keys(_actions)
             THEN /\ _actions' = SubSeq(_actions, 1, Len(_actions) - 1)
                  /\ updateCalls' = updateCalls + 1
                  /\ pluggableResult' = "returned"
             ELSE /\ pluggableResult' = "KeyError"
                  /\ UNCHANGED <<_actions, updateCalls>>
    /\ UNCHANGED <<removeIssued, ran>>
    /\ UNCHANGED <<displayVars, philipsVars, entryVars>>

\* the r-th remove callback is called: del raises KeyError when its entry
\* is gone, before _update is reached
_remove ==
    /\ \E r \in 1..removeIssued :
          /\ pluggableCall' = <<"_remove", r>>
          /\ IF r \in Keys(_actions)
             THEN /\ _actions' = SelectSeq(_actions, LAMBDA e : e[1] # r)
                  /\ updateCalls' = updateCalls + 1
                  /\ pluggableResult' = "returned"
             ELSE /\ pluggableResult' = "KeyError"
                  /\ UNCHANGED <<_actions, updateCalls>>
    /\ UNCHANGED <<removeIssued, ran>>
    /\ UNCHANGED <<displayVars, philipsVars, entryVars>>

\* async_run hands every attached job to the host, in dictionary order
async_run ==
    /\ ran' = [i \in 1..Len(_actions) |-> <<_actions[i][2], _actions[i][3]>>]
    /\ pluggableCall' = <<"async_run", 0>>
    /\ pluggableResult' = "returned"
    /\ UNCHANGED <<_actions, removeIssued, updateCalls>>
    /\ UNCHANGED <<displayVars, philipsVars, entryVars>>

NextPluggable ==
    \/ async_attach
    \/ _remove
    \/ async_run

SpecPluggable == Init /\ [][NextPluggable]_vars

----------------------------------------------------------------------------
(* Config entries of the Philips TV and Version integrations.  Each keeps  *)
(* its coordinators in hass.data[DOMAIN], keyed by entry id.  The host     *)
(* sets up an entry that is not loaded and unloads one that is loaded;     *)
(* both functions are coroutines with one await.                           *)

\* the entry ids under hass.data[domain]; none when the key is missing
Entries(data, domain) == IF data[domain] = <<>> THEN {} ELSE data[domain][1]

\* async_setup_entry is called and awaits the first refresh
async_setup_entry ==
    /\ \E domain \in Domains, entry_id \in EntryIds :
          /\ entryPc[domain][entry_id] = "not_loaded"
          /\ entryPc' = [entryPc EXCEPT ![domain][entry_id] = "refresh"]
    /\ UNCHANGED <<hass_data, entryResult>>
    /\ UNCHANGED <<displayVars, philipsVars, pluggableVars>>

\* the refresh returns: hass.data.setdefault(DOMAIN, {})[entry_id] = coordinator
async_setup_entry_refreshed ==
    /\ \E domain \in Domains, entry_id \in EntryIds :
          /\ entryPc[domain][entry_id] = "refresh"
          /\ hass_data' = [hass_data EXCEPT
                              ![domain] = <<Entries(hass_data, domain) \cup {entry_id}>>]
          /\ entryPc' = [entryPc EXCEPT ![domain][entry_id] = "loaded"]
          /\ entryResult' = <<domain, entry_id, "async_setup_entry", "True">>
    /\ UNCHANGED <<displayVars, philipsVars, pluggableVars>>

\* async_config_entry_first_refresh of the Version coordinator raises
\* ConfigEntryNotReady; the Philips setup awaits async_refresh, which does not raise
async_setup_entry_not_ready ==
    /\ \E entry_id \in EntryIds :
          /\ entryPc["version"][entry_id] = "refresh"
          /\ entryPc' = [entryPc EXCEPT !["version"][entry_id] = "not_loaded"]
          /\ entryResult' = <<"version", entry_id, "async_setup_entry",
                              "ConfigEntryNotReady">>
    /\ UNCHANGED hass_data
    /\ UNCHANGED <<displayVars, philipsVars, pluggableVars>>

\* async_unload_entry is called and awaits async_unload_platforms
async_unload_entry ==
    /\ \E domain \in Domains, entry_id \in EntryIds :
          /\ entryPc[domain][entry_id] = "loaded"
          /\ entryPc' = [entryPc EXCEPT ![domain][entry_id] = "unload_platforms"]
    /\ UNCHANGED <<hass_data, entryResult>>
    /\ UNCHANGED <<displayVars, philipsVars, pluggableVars>>

\* an unload that pops the entry whatever async_unload_platforms returned
async_unload_entry_unloaded_always_pops ==
    /\ \E domain \in Domains, entry_id \in EntryIds, unload_ok \in BOOLEAN :
          /\ entryPc[domain][entry_id] = "unload_platforms"
          /\ IF entry_id \in Entries(hass_data, domain)
             THEN /\ hass_data' = [hass_data EXCEPT
                            ![domain] = <<Entries(hass_data, domain) \ {entry_id}>>]
                  /\ entryPc' = [entryPc EXCEPT ![domain][entry_id] =
                                    IF unload_ok THEN "not_loaded" ELSE "loaded"]
                  /\ entryResult' = <<domain, entry_id, "async_unload_entry",
                                      IF unload_ok THEN "True" ELSE "False">>
             ELSE /\ entryPc' = [entryPc EXCEPT ![domain][entry_id] = "loaded"]
                  /\ entryResult' = <<domain, entry_id, "async_unload_entry", "KeyError">>
                  /\ UNCHANGED hass_data
    /\ UNCHANGED <<displayVars, philipsVars, pluggableVars>>

\* async_unload_platforms returns unload_ok: the entry is popped when it is
\* true (pop raises KeyError for a missing key), and unload_ok is returned
async_unload_entry_unloaded ==
    /\ \E domain \in Domains, entry_id \in EntryIds, unload_ok \in BOOLEAN :
          /\ entryPc[domain][entry_id] = "unload_platforms"
          /\ IF ~unload_ok
             THEN /\ entryPc' = [entryPc EXCEPT ![domain][entry_id] = "loaded"]
                  /\ entryResult' = <<domain, entry_id, "async_unload_entry", "False">>
                  /\ UNCHANGED hass_data
             ELSE IF entry_id \in Entries(hass_data, domain)
             THEN /\ hass_data' = [hass_data EXCEPT
                            ![domain] = <<Entries(hass_data, domain) \ {entry_id}>>]
                  /\ entryPc' = [entryPc EXCEPT ![domain][entry_id] = "not_loaded"]
                  /\ entryResult' = <<domain, entry_id, "async_unload_entry", "True">>
             ELSE /\ entryPc' = [entryPc EXCEPT ![domain][entry_id] = "loaded"]
                  /\ entryResult' = <<domain, entry_id, "async_unload_entry", "KeyError">>
                  /\ UNCHANGED hass_data
    /\ UNCHANGED <<displayVars, philipsVars, pluggableVars>>

NextEntries ==
    \/ async_setup_entry
    \/ async_setup_entry_refreshed
    \/ async_setup_entry_not_ready
    \/ async_unload_entry
    \/ async_unload_entry_unloaded

SpecEntries == Init /\ [][NextEntries]_vars

\* the step in which the unload of entry_id of domain returns unload_ok
UnloadReturns(domain, entry_id, unload_ok) ==
    /\ entryPc[domain][entry_id] = "unload_platforms"
    /\ entryPc'[domain][entry_id] # "unload_platforms"
    /\ entryResult' = <<domain, entry_id, "async_unload_entry", unload_ok>>

----------------------------------------------------------------------------
(* The calls awaited on the connection at this moment: one per coroutine   *)
(* suspended in an mdc method (a request or close()).                      *)
InFlight ==
    (IF updatePc \in {"status", "close"} THEN 1 ELSE 0)
    + (IF turnOnPc \in {"power", "close"} THEN 1 ELSE 0)
    + (IF cmdPc # "idle" THEN 1 ELSE 0)

\* the last async_update has ended and its status request had raised
LastPollFailed == updatePc = "idle" /\ updateFault # "none"

\* this step is taken by the async_update coroutine
PollStep == updateVars' # updateVars

\* this step is the successful return of mdc.status
PollInstalls == updatePc = "status" /\ updateResult' = "updated"

Fields == <<_power, _volume, _muted, _input_source>>

\* the property `state`: it reads the attribute `available` of the base
\* class, the property that would return _available being commented out
state ==
    IF ~available THEN "unavailable"
    ELSE IF _power THEN "on"
    ELSE "off"

----------------------------------------------------------------------------
\* C1: after any poll that failed (read timeout, malformed response, other
\* device error) the available flag _available is false.
C1_FailedPollUnavailable == LastPollFailed => ~_available

\* C2: a successful poll that finds the adapter unavailable (a failed poll
\* cleared _available) leaves _available true.
C2_SuccessfulPollRestores ==
    [][(PollInstalls /\ ~_available) => _available']_vars

\* C3: for each fault kind of the status request the poll returns normally
\* (no exception escapes async_update) and the fault is recorded as
\* _available = FALSE.
C3_PollNeverRaises ==
    LastPollFailed => (updateResult = "returned" /\ ~_available)

\* C4: every step of a poll other than the successful return of mdc.status
\* leaves power, volume, muted and input source as they were; volume, muted
\* and input source change only when a status tuple is installed, power only
\* then or when async_turn_on sets it after its power-on command.
C4_FailedPollKeepsFields ==
    [][ /\ (PollStep /\ ~PollInstalls) => UNCHANGED Fields
        /\ (<<_volume, _muted, _input_source>>' # <<_volume, _muted, _input_source>>)
              => PollInstalls
        /\ (_power' # _power)
              => (PollInstalls \/ (turnOnPc = "power" /\ turnOnPc' = "close"))
      ]_vars

\* a poll failed on a malformed response after an earlier poll had installed
\* a status
C4_Witness ==
    /\ updatePc = "idle"
    /\ updateFault = "MDCResponseError"
    /\ updateResult = "UnboundLocalError"
    /\ _volume # <<>>
    /\ _input_source # <<>>
    /\ _power

\* C5: async_turn_on called with power off has _is_awaiting_power_on set when
\* it first suspends and wherever it is suspended afterwards, and a poll
\* called while the flag is set issues no status request (it ends at once,
\* the connection untouched) and changes no DeviceState field.
C5_PollSkippedWhileAwaiting ==
    [][ /\ (turnOnPc = "idle" /\ ~_power /\ turnOnVars' # turnOnVars)
              => (_is_awaiting_power_on' /\ turnOnPc' = "power")
        /\ (turnOnPc' # "idle") => _is_awaiting_power_on'
        /\ (updatePc = "idle" /\ _is_awaiting_power_on /\ PollStep)
              => /\ updatePc' = "idle"
                 /\ updateResult' = "skipped"
                 /\ UNCHANGED <<DeviceState, connected>>
      ]_vars

\* a poll was skipped while async_turn_on is in its grace wait
C5_Witness ==
    /\ turnOnPc = "sleep"
    /\ updatePc = "idle"
    /\ updateResult = "skipped"
    /\ _is_awaiting_power_on

\* C6: once async_turn_on has ended, however it ended, _is_awaiting_power_on
\* is false (nothing but async_turn_on clears the flag, so a flag left set
\* when it ends suppresses polling for ever).
C6_TurnOnClearsFlag == (turnOnPc = "idle") => ~_is_awaiting_power_on

\* C7: in every reachable state _is_awaiting_power_on implies _power.
C7_AwaitingImpliesPowerOn == _is_awaiting_power_on => _power

\* C8: async_turn_on called with power on sends nothing, closes nothing, does
\* not wait, does not set _is_awaiting_power_on, changes no DeviceState field
\* and returns normally.
C8_TurnOnWhileOnIsNoop ==
    [][ (turnOnPc = "idle" /\ _power /\ turnOnVars' # turnOnVars)
          => /\ turnOnPc' = "idle"
             /\ turnOnResult' = "returned_already_on"
             /\ UNCHANGED <<DeviceState, connected>>
      ]_vars

\* async_turn_on returned at once on a display that is on
C8_Witness ==
    /\ turnOnPc = "idle"
    /\ turnOnResult = "returned_already_on"
    /\ _power
    /\ ~_is_awaiting_power_on

\* C9: async_select_source with a name that is not a value of SOURCE_MAP ends
\* with ValueError with nothing called on the connection and the DeviceState
\* unchanged; with a name that is one, the key sent is one SOURCE_MAP maps to
\* that name.
C9_SelectSourceChecked ==
    [][ (cmdPc = "idle" /\ cmdVars' # cmdVars /\ cmdCall'[1] = "async_select_source")
          => IF cmdCall'[2] \notin {SOURCE_MAP[i][2] : i \in 1..Len(SOURCE_MAP)}
             THEN /\ cmdPc' = "idle"
                  /\ cmdResult' = "ValueError"
                  /\ UNCHANGED <<DeviceState, connected>>
             ELSE /\ cmdPc' = "input_source"
                  /\ Len(cmdArg') = 2
                  /\ cmdArg'[1] = "input_source"
                  /\ SourceOfKey(cmdArg'[2]) = cmdCall'[2]
      ]_vars

\* an unknown name was rejected on an adapter whose connection was never opened
C9_Witness ==
    /\ cmdPc = "idle"
    /\ cmdResult = "ValueError"
    /\ cmdCall = <<"async_select_source", "SOURCE_UNKNOWN">>
    /\ ~connected

\* C10: at most one call (request or close) is in flight on the connection.
C10_OneCallInFlight == InFlight <= 1

\* C11: a teardown that begins while async_turn_on is in its grace wait ends
\* the wait and leaves the connection released, and once teardown has begun
\* no status request and no command is issued on the connection.
C11_TeardownCancelsWait ==
    [][ /\ (~removed /\ removed' /\ turnOnPc = "sleep")
              => (turnOnPc' = "idle" /\ ~connected')
        /\ removed
              => /\ (updatePc' = "status" => updatePc = "status")
                 /\ (turnOnPc' = "power" => turnOnPc = "power")
                 /\ (cmdPc' # "idle" => cmdPc = cmdPc')
      ]_vars

\* C12: the value async_set_volume_level sends is the level times 100, rounded,
\* and clamped into 0..100 (so it is never below 0 or above 100, and the
\* level 0.5 sends 50).
C12_VolumeSentClamped ==
    cmdPc = "volume" =>
        \E volume \in VolumeLevels :
            /\ cmdCall = <<"async_set_volume_level", LevelText(volume)>>
            /\ cmdArg = <<"volume",
                          IF RoundPct(volume) > 100 THEN 100
                          ELSE IF RoundPct(volume) < 0 THEN 0
                          ELSE RoundPct(volume)>>

\* C13: when async_turn_on clears _is_awaiting_power_on at the end of the
\* grace wait, _available is true, whatever it was before.
C13_AvailableAfterGrace ==
    [][(turnOnPc = "sleep" /\ turnOnPc' = "idle") => _available']_vars

\* C14: async_turn_on on a display that is off goes through its steps in this
\* order: the flag is set and the power-on command issued (power not yet
\* set); when the command returns or raises MDCResponseError, power is set
\* and close() is awaited (only another exception ends the call there); when
\* close() returns the connection is closed and the wait starts; when the
\* wait ends the flag is cleared and the call returns, the connection not
\* having been used again by it.
C14_TurnOnSequence ==
    [][ /\ (turnOnPc = "idle" /\ turnOnPc' # "idle")
              => /\ turnOnPc' = "power"
                 /\ ~_power /\ ~_power'
                 /\ _is_awaiting_power_on'
        /\ (turnOnPc = "power" /\ turnOnPc' # "power")
              => \/ /\ turnOnPc' = "close"
                    /\ powerOnFault' \in {"none", "MDCResponseError"}
                    /\ _power'
                    /\ _is_awaiting_power_on'
                    /\ UNCHANGED connected
                 \/ /\ turnOnPc' = "idle"
                    /\ powerOnFault' \in {"MDCReadTimeoutError", "MDCError"}
        /\ (turnOnPc = "close" /\ turnOnPc' # "close")
              => /\ turnOnPc' = "sleep"
                 /\ ~connected'
                 /\ _is_awaiting_power_on'
        /\ (turnOnPc = "sleep" /\ turnOnPc' # "sleep")
              => /\ turnOnPc' = "idle"
                 /\ turnOnResult' = "returned"
                 /\ ~_is_awaiting_power_on'
                 /\ UNCHANGED connected
      ]_vars

\* the power-on command raised MDCResponseError and async_turn_on is in its
\* grace wait all the same, the connection closed
C14_Witness ==
    /\ turnOnPc = "sleep"
    /\ powerOnFault = "MDCResponseError"
    /\ _power
    /\ _is_awaiting_power_on
    /\ ~connected

\* C15: no step of async_turn_off, async_mute_volume, async_set_volume_level
\* or async_select_source changes a DeviceState field, whether the command is
\* issued, returns or raises; the call ends with the result of the mdc method
\* or with the exception it raised.
C15_CommandsKeepState ==
    [][ (cmdVars' # cmdVars)
          => /\ UNCHANGED DeviceState
             /\ (cmdPc # "idle" /\ cmdPc' = "idle")
                   => cmdResult' \in {"returned"} \cup MDCFaults
      ]_vars

\* a forwarded command ended with the device error it met, on an adapter that
\* holds a polled state
C15_Witness ==
    /\ cmdPc = "idle"
    /\ cmdResult \in MDCFaults
    /\ cmdCall = <<"async_turn_off", "">>
    /\ _power
    /\ _volume # <<>>

\* C16: in the poll whose status request raised, whatever the fault kind,
\* close() is called on the connection: the step in which mdc.status raises
\* leaves async_update awaiting mdc.close().
C16_FailedPollCloses ==
    [][(updatePc = "status" /\ updateFault' # "none") => updatePc' = "close"]_vars

\* C17: the step in which mdc.status returns assigns power, volume, muted and
\* input source from one status tuple and ends the poll, and no other step of
\* a poll changes any of them: nobody can observe some of the fields from the
\* new status and others from the old one.
C17_StatusInstalledAtomically ==
    [][ /\ (updatePc = "status" /\ PollStep /\ updateFault' = "none")
              => /\ updatePc' = "idle"
                 /\ updateResult' = "updated"
                 /\ \E power_state \in PowerStates, volume_level \in StatusVolumes,
                       mute_state \in MuteStates, input_state \in StatusSources :
                      Fields' = << power_state = "ON", <<volume_level>>,
                                   mute_state = "ON", <<input_state>> >>
        /\ (PollStep /\ Fields' # Fields)
              => (updatePc = "status" /\ updatePc' = "idle")
      ]_vars

\* a poll has installed a status while a forwarded command is in flight
C17_Witness ==
    /\ updatePc = "idle"
    /\ updateResult = "updated"
    /\ cmdPc = "power"
    /\ _power
    /\ _muted
    /\ _volume # <<>>
    /\ _input_source # <<>>

\* C18: no step of this entity's async_turn_on changes the other entity's
\* state and no step of the other entity's poll changes this entity's; a poll
\* of the other entity is skipped only on the other entity's own flag, so a
\* poll called while this entity is in its grace wait issues its status
\* request.
C18_AdaptersIndependent ==
    [][ /\ (thisVars' # thisVars) => (other' = other)
        /\ (other' # other) => (thisVars' = thisVars)
        /\ (other.updatePc = "idle" /\ other' # other
               /\ ~other._is_awaiting_power_on)
              => other'.updatePc = "status"
      ]_vars

\* a poll of the other entity, called while this entity was in its grace
\* wait, has installed a status and this entity is still waiting
C18_Witness ==
    /\ turnOnPc = "sleep"
    /\ _is_awaiting_power_on
    /\ otherCalledInWait
    /\ other.updatePc = "idle"
    /\ other.updateResult = "updated"
    /\ other._volume # <<>>
\* C19: a notify task is created only in a state where api.on, powerstate =
\* "On", notify_change_supported and the allow-notify option all hold, and
\* every notifyChange request, the first of a task as well as each later one,
\* is started in a state where they all hold.
C19_NotifyOnlyWhenWanted ==
    [][ /\ (\E t \in 1..MaxTasks : tasks[t] = "unborn" /\ tasks'[t] # "unborn")
              => /\ api'.on
                 /\ api'.powerstate = "On"
                 /\ api'.notify_change_supported
                 /\ options'.allow_notify
        /\ (notifyRequests' # notifyRequests)
              => /\ api'.on
                 /\ api'.powerstate = "On"
                 /\ api'.notify_change_supported
                 /\ options'.allow_notify ]_vars

\* the first task has left its loop, and a second task, created by a later
\* poll, has a notifyChange request in flight while the condition holds
C19_Witness ==
    /\ tasks[1] = "done"
    /\ tasks[2] = "notifyChange"
    /\ _notify_future = 2
    /\ notifyRequests = 1
    /\ _notify_wanted(api, options)

\* C20: bool(action) is true iff some attached action has not been removed;
\* an attach adds exactly its own entry and calls update once; a remove
\* callback whose action is attached deletes exactly that entry, keeps the
\* others in order and calls update once; a remove callback whose action is
\* already gone raises KeyError, changes nothing and calls update not at all.
C20_PluggableTruthiness ==
    [][ /\ __bool__' <=> (Keys(_actions') # {})
        /\ (pluggableCall'[1] = "async_attach")
              => /\ Keys(_actions') = Keys(_actions) \cup {pluggableCall'[2]}
                 /\ pluggableCall'[2] \notin Keys(_actions)
                 /\ SubSeq(_actions', 1, Len(_actions)) = _actions
                 /\ updateCalls' = updateCalls + 1
                 /\ __bool__'
        /\ (pluggableCall'[1] = "_remove" /\ pluggableCall'[2] \in Keys(_actions))
              => /\ _actions' = SelectSeq(_actions, LAMBDA e : e[1] # pluggableCall'[2])
                 /\ Len(_actions') = Len(_actions) - 1
                 /\ updateCalls' = updateCalls + 1
                 /\ pluggableResult' = "returned"
        /\ (pluggableCall'[1] = "_remove" /\ pluggableCall'[2] \notin Keys(_actions))
              => /\ _actions' = _actions
                 /\ updateCalls' = updateCalls
                 /\ pluggableResult' = "KeyError" ]_vars

\* three actions were attached and the second one was removed
C20_Witness ==
    /\ pluggableCall = <<"_remove", 2>>
    /\ pluggableResult = "returned"
    /\ Keys(_actions) = {1, 3}
    /\ updateCalls = 4
    /\ __bool__


\* C21: after every step at most one notify task is neither finished nor
\* cancelled, that task is the one _notify_future records, and a poll that
\* ends while the recorded task is still running creates no task.
C21_OneLiveNotifyTask ==
    [][ /\ Cardinality(LiveTasks') <= 1
        /\ LiveTasks' \subseteq {_notify_future'}
        /\ (PollEnds /\ LiveTasks # {})
              => /\ tasks' = tasks
                 /\ _notify_future' = _notify_future ]_vars

\* a successful poll found the recorded task running while the notify
\* condition held, and left it alone
C21_Witness ==
    /\ updateDataPc = "idle"
    /\ updateDataResult = "task_running"
    /\ _notify_wanted(api, options)
    /\ LiveTasks = {1}
    /\ _notify_future = 1
    /\ tasks[2] = "unborn"

\* C22: a coordinator without listeners has no live notify task: the step
\* that removes the last listener and every step that clears the handle
\* leave no live task and no handle, and a poll that was called while there
\* were listeners and ends when there are none leaves no live task.
C22_NoListenersNoTask ==
    [][ /\ (_listeners = 1 /\ _listeners' = 0)
              => (LiveTasks' = {} /\ _notify_future' = 0)
        /\ (_notify_future # 0 /\ _notify_future' = 0) => LiveTasks' = {}
        /\ (PollEnds /\ updateDataListeners > 0 /\ _listeners = 0)
              => LiveTasks' = {} ]_vars

\* C23: a poll whose api.update raises ConnectionFailure ends normally
\* with the exception swallowed, and leaves every notify task and the handle
\* as they were; a notify task is created only in the step in which a poll's
\* api.update returns.
C23_FailedPollSwallowed ==
    [][ /\ (PollEnds /\ updateDataResult' \notin {"task_running", "task_created", "not_wanted"})
              => /\ updateDataResult' = "ConnectionFailure_swallowed"
                 /\ tasks' = tasks
                 /\ _notify_future' = _notify_future
        /\ (\E t \in 1..MaxTasks : tasks[t] = "unborn" /\ tasks'[t] # "unborn")
              => /\ PollEnds
                 /\ updateDataResult' = "task_created" ]_vars

\* a poll failed while the notify condition still held and no task was
\* running: scheduling would have created one
C23_Witness ==
    /\ updateDataPc = "idle"
    /\ updateDataResult = "ConnectionFailure_swallowed"
    /\ _notify_wanted(api, options)
    /\ LiveTasks = {}
    /\ tasks[1] = "done"
    /\ tasks[2] = "unborn"

\* C24: when notifyChange returns in a notify task, the task leaves its loop
\* if the result is None or the notify condition no longer holds, and starts
\* the next request otherwise; a truthy result, and nothing else, calls
\* async_set_updated_data; and a poll whose api.update returns while the
\* recorded task has ended and the condition holds creates a new task.
C24_NotifyTaskStopsAndRestarts ==
    [][ /\ \A t \in 1..MaxTasks : NotifyReturns(t) =>
              /\ (tasks'[t] = "done")
                    <=> (notifyResult' = "None" \/ ~_notify_wanted(api', options'))
              /\ (updatedDataCalls' # updatedDataCalls) <=> (notifyResult' = "True")
        /\ (updatedDataCalls' # updatedDataCalls)
              => \E t \in 1..MaxTasks : NotifyReturns(t)
        /\ ( /\ PollEnds
             /\ updateDataResult' # "ConnectionFailure_swallowed"
             /\ _notify_future # 0
             /\ tasks[_notify_future] = "done"
             /\ _notify_wanted(api', options') )
              => /\ _notify_future' # _notify_future
                 /\ tasks[_notify_future'] = "unborn"
                 /\ tasks'[_notify_future'] = "created" ]_vars

\* the first task pushed an update, then ended on None while the condition
\* held, and the next poll created the second task
C24_Witness ==
    /\ tasks[1] = "done"
    /\ notifyResult = "None"
    /\ updatedDataCalls = 1
    /\ updateDataResult = "task_created"
    /\ tasks[2] = "created"
    /\ _notify_future = 2

\* C25: when an unload of a Philips TV or Version entry returns true, the
\* map of its domain has lost exactly that entry id; when it returns false,
\* hass.data is unchanged; it returns nothing else; whenever an entry is not
\* loaded, after a setup that failed or an unload that succeeded, its id is
\* not in the map, and a loaded entry's id is.
C25_UnloadPopsOnSuccess ==
    [][ \A domain \in Domains, entry_id \in EntryIds :
          /\ UnloadReturns(domain, entry_id, "True")
                => /\ entry_id \in Entries(hass_data, domain)
                   /\ Entries(hass_data', domain) = Entries(hass_data, domain) \ {entry_id}
                   /\ \A d \in Domains \ {domain} : hass_data'[d] = hass_data[d]
          /\ UnloadReturns(domain, entry_id, "False") => hass_data' = hass_data
          /\ (entryPc[domain][entry_id] = "unload_platforms"
                /\ entryPc'[domain][entry_id] # "unload_platforms")
                => \/ UnloadReturns(domain, entry_id, "True")
                   \/ UnloadReturns(domain, entry_id, "False")
          /\ (entryPc'[domain][entry_id] = "not_loaded")
                => entry_id \notin Entries(hass_data', domain)
          /\ (entryPc'[domain][entry_id] = "loaded")
                => entry_id \in Entries(hass_data', domain) ]_vars

\* both Philips entries were set up and the first was unloaded with
\* success: the map of the domain still holds the second
C25_Witness ==
    /\ entryResult = <<"philips_js", 1, "async_unload_entry", "True">>
    /\ entryPc["philips_js"][1] = "not_loaded"
    /\ hass_data["philips_js"] = <<{2}>>

\* C26: whenever a failed poll has cleared _available the reported state is
\* unavailable, and whenever _available is true the reported state is on if
\* _power is true and off if it is not.
C26_StateFollowsAvailable ==
    /\ ~_available => state = "unavailable"
    /\ _available => state = (IF _power THEN "on" ELSE "off")

====
